---------------------------- MODULE Spec2Model ----------------------------
(***************************************************************************)
(* Model of mouse-speed-analyser (src/src/main.rs): the shared MouseState  *)
(* behind one mutex, the mouse event handling thread, the polling rate     *)
(* thread and the UI refresh MouseApp::update.                             *)
(*                                                                         *)
(* Time is counted in whole milliseconds since start_time.  An f64 is      *)
(* modelled as an exact rational [k |-> "fin", n, d] in lowest terms, or   *)
(* one of the IEEE specials "pinf", "ninf", "nan"; rounding of the f64     *)
(* arithmetic is not modelled.  A text field's content is a sequence of    *)
(* one-character strings.                                                  *)
(***************************************************************************)
EXTENDS Integers, Sequences, FiniteSets, TLC

(***************************************************************************)
(* Bounds of the model.                                                    *)
(***************************************************************************)
\* Ceiling of speed_history and polling_history.  The code's ceiling is the
\* literal 1000 (main.rs:112 and :194); the model is parametric in it and is
\* checked with a small ceiling so that a history can reach and pass it.
Capacity == 2
\* What the environment does in one run: the clock advances, the adapter
\* delivers a mouse move, a frame starts; each counts one.
MaxWork == 5

(***************************************************************************)
(* Program constants.                                                      *)
(***************************************************************************)
\* Duration::from_millis(15)
PollingIntervalMs == 15
\* the graph retention "5.0" seconds of the two prune loops, in ms
GraphDurationMs == 5000
\* unwrap_or(5.0): the value used when the window text does not parse
DefaultWindow == 5
\* f64::max(1000.0, 0.0001), both arguments in units of 0.0001
DivisorA == 10000000
DivisorB == 1
\* 0.0254 metres per inch, as 254 / 10000
InchNum == 254
InchDen == 10000

(***************************************************************************)
(* Arithmetic helpers.                                                     *)
(***************************************************************************)
Abs(x) == IF x < 0 THEN -x ELSE x

Max(a, b) == IF a >= b THEN a ELSE b

\* (operands are bound in singleton sets so that each is evaluated once)
RECURSIVE GCD(_, _)
GCD(a, b) ==
    IF b = 0 THEN a ELSE CHOOSE g \in {GCD(y, x % y) : x \in {a}, y \in {b}} : TRUE

\* f64 values
Fin(n, d) ==
    LET s == IF d < 0 THEN -1 ELSE 1
        g == GCD(Abs(n), Abs(d))
    IN  [k |-> "fin", n |-> (s * n) \div g, d |-> (s * d) \div g]

PInf == [k |-> "pinf", n |-> 0, d |-> 1]
NInf == [k |-> "ninf", n |-> 0, d |-> 1]
NaN == [k |-> "nan", n |-> 0, d |-> 1]
Zero == Fin(0, 1)

\* a > b on f64 (false whenever either side is NaN)
FGt(a, b) ==
    CASE a.k = "nan" \/ b.k = "nan" -> FALSE
      [] a.k = "pinf" -> b.k # "pinf"
      [] a.k = "ninf" -> FALSE
      [] b.k = "pinf" -> FALSE
      [] b.k = "ninf" -> TRUE
      [] OTHER -> a.n * b.d > b.n * a.d

\* a / b on f64, for a and b finite or NaN
FDiv(a, b) ==
    CASE a.k = "nan" \/ b.k = "nan" -> NaN
      [] b.n = 0 /\ a.n = 0 -> NaN
      [] b.n = 0 /\ a.n > 0 -> PInf
      [] b.n = 0 /\ a.n < 0 -> NInf
      [] OTHER -> Fin(a.n * b.d, a.d * b.n)

FMul(a, b) ==
    IF a.k = "nan" \/ b.k = "nan" THEN NaN ELSE Fin(a.n * b.n, a.d * b.d)

\* integer square root by bisection; Sqrt is exact on perfect squares
RECURSIVE SqrtIter(_, _, _)
SqrtIter(n, lo, hi) ==
    IF lo >= hi THEN lo
    ELSE CHOOSE r \in {IF mid * mid <= n THEN SqrtIter(n, mid, hi)
                       ELSE SqrtIter(n, lo, mid - 1) :
                           mid \in {(lo + hi + 1) \div 2}} : TRUE

ISqrt(n) == SqrtIter(n, 0, IF n < 46340 THEN n ELSE 46340)


(***************************************************************************)
(* str::parse::<f64> on the decimal texts the model types into the two     *)
(* fields: an optional sign, digits, an optional point and digits, with at *)
(* least one digit.  (Exponents and the words inf / nan are not typed.)    *)
(***************************************************************************)
Digits == <<"0", "1", "2", "3", "4", "5", "6", "7", "8", "9">>

IsDigit(c) == \E i \in 1..10 : Digits[i] = c

DigitVal(c) == (CHOOSE i \in 1..10 : Digits[i] = c) - 1

RECURSIVE DigitsValue(_)
DigitsValue(s) ==
    IF s = <<>> THEN 0
    ELSE DigitsValue(SubSeq(s, 1, Len(s) - 1)) * 10 + DigitVal(s[Len(s)])

RECURSIVE Pow10(_)
Pow10(k) == IF k = 0 THEN 1 ELSE 10 * Pow10(k - 1)

ParseF64(s) ==
    LET signed == s # <<>> /\ s[1] \in {"+", "-"}
        body == IF signed THEN Tail(s) ELSE s
        sign == IF signed /\ s[1] = "-" THEN -1 ELSE 1
        dots == {i \in 1..Len(body) : body[i] = "."}
        p == IF dots = {} THEN Len(body) + 1
             ELSE CHOOSE i \in dots : \A j \in dots : i <= j
        ip == SubSeq(body, 1, p - 1)
        fp == SubSeq(body, p + 1, Len(body))
        ok == /\ \A i \in 1..Len(ip) : IsDigit(ip[i])
              /\ \A i \in 1..Len(fp) : IsDigit(fp[i])
              /\ Len(ip) + Len(fp) >= 1
    IN  IF ok
        THEN [ok |-> TRUE,
              val |-> Fin(sign * (DigitsValue(ip) * Pow10(Len(fp)) + DigitsValue(fp)),
                          Pow10(Len(fp)))]
        ELSE [ok |-> FALSE, val |-> NaN]

(***************************************************************************)
(* The pure parts of MouseApp::update.                                     *)
(***************************************************************************)
\* current_time - t, both f64 seconds; T and t are in ms
AgeSecs(T, t) == Fin(T - t, 1000)

\* PruneFront with if in place of while: one entry at most leaves
PruneFrontOnce(h, T, horizon) ==
    IF h # <<>> /\ FGt(AgeSecs(T, h[1][1]), horizon) THEN Tail(h) ELSE h

\* PruneFront with >= in place of >: an entry exactly at the horizon goes too
RECURSIVE PruneFrontAtHorizon(_, _, _)
PruneFrontAtHorizon(h, T, horizon) ==
    IF h # <<>> /\ ~FGt(horizon, AgeSecs(T, h[1][1]))
    THEN PruneFrontAtHorizon(Tail(h), T, horizon)
    ELSE h

\* while let Some(&(t, _)) = h.front() { if current_time - t > horizon { pop_front } else { break } }
RECURSIVE PruneFront(_, _, _)
PruneFront(h, T, horizon) ==
    IF h # <<>> /\ FGt(AgeSecs(T, h[1][1]), horizon)
    THEN PruneFront(Tail(h), T, horizon)
    ELSE h

GraphDuration == Fin(GraphDurationMs, 1000)

\* window_duration_string.parse::<f64>().unwrap_or(5.0) / f64::max(1000.0, 0.0001)
WindowDuration(text) ==
    LET UnwrapOr(r) == IF r.ok THEN r.val ELSE Fin(DefaultWindow, 1)
    IN  CHOOSE w \in {FDiv(v, Fin(Max(DivisorA, DivisorB), 10000)) :
                         v \in {UnwrapOr(r) : r \in {ParseF64(text)}}} : TRUE

\* i32 arithmetic.  An i32 is an integer of -2^31 .. 2^31 - 1; a product or a
\* sum is computed on the four bytes of the two's complement form, so that
\* the result wraps at 32 bits as the release build's arithmetic does.
MaxI32 == 2147483647

\* the bytes of an i32, lowest first
Bytes(x) ==
    <<x % 256, (x \div 256) % 256, (x \div 65536) % 256,
      (x \div 16777216) % 256>>

\* the i32 of the low 32 bits of c[1] + c[2] * 2^8 + c[3] * 2^16 + c[4] * 2^24
FromColumns(c) ==
    LET t2 == c[2] + (c[1] \div 256)
        t3 == c[3] + (t2 \div 256)
        t4 == c[4] + (t3 \div 256)
        top == t4 % 256
    IN  (IF top >= 128 THEN top - 256 ELSE top) * 16777216
            + (t3 % 256) * 65536 + (t2 % 256) * 256 + (c[1] % 256)

\* i32::wrapping_mul
WrappingMul(x, y) ==
    CHOOSE r \in
        {FromColumns(c) :
             c \in {<<a[1] * b[1],
                      a[1] * b[2] + a[2] * b[1],
                      a[1] * b[3] + a[2] * b[2] + a[3] * b[1],
                      a[1] * b[4] + a[2] * b[3] + a[3] * b[2] + a[4] * b[1]>> :
                         a \in {Bytes(x)}, b \in {Bytes(y)}}} : TRUE

\* i32::wrapping_add
WrappingAdd(x, y) ==
    CHOOSE r \in
        {FromColumns(c) :
             c \in {<<a[1] + b[1], a[2] + b[2], a[3] + b[3], a[4] + b[4]>> :
                         a \in {Bytes(x)}, b \in {Bytes(y)}}} : TRUE

\* x * y leaves the range of i32 (x and y not i32::MIN)
MulOverflows(x, y) == x # 0 /\ Abs(y) > MaxI32 \div Abs(x)

\* x + y leaves the range of i32, for x and y not negative
AddOverflows(x, y) == x > MaxI32 - y

\* dx * dx + dy * dy overflows: the debug build panics there
SquareOverflows(dx, dy) ==
    IF MulOverflows(dx, dx) \/ MulOverflows(dy, dy) THEN TRUE
    ELSE AddOverflows(dx * dx, dy * dy)

\* dx * dx + dy * dy in i32, as the release build computes it
SquaredLength(dx, dy) ==
    CHOOSE r \in {WrappingAdd(xx, yy) :
                      xx \in {WrappingMul(dx, dx)},
                      yy \in {WrappingMul(dy, dy)}} : TRUE

\* a + b on f64, for a and b finite or NaN
FAdd(a, b) ==
    IF a.k = "nan" \/ b.k = "nan" THEN NaN
    ELSE Fin(a.n * b.d + b.n * a.d, a.d * b.d)

\* ((dx * dx + dy * dy) as f64).sqrt(): NaN on a negative (wrapped) sum; the
\* sums of the model that are not negative are perfect squares
DeltaLength(d) ==
    CHOOSE r \in {IF q < 0 THEN NaN ELSE Fin(ISqrt(q), 1) :
                      q \in {SquaredLength(d[1], d[2])}} : TRUE

\* let mut total_delta_counts = 0.0; for ... { total_delta_counts += delta }
RECURSIVE TotalDeltaCounts(_)
TotalDeltaCounts(h) ==
    IF h = <<>> THEN Zero
    ELSE CHOOSE r \in {FAdd(t, delta) :
                          t \in {TotalDeltaCounts(SubSeq(h, 1, Len(h) - 1))},
                          delta \in {DeltaLength(h[Len(h)][2])}} : TRUE

ComputeSpeed(h, dpiv, window) ==
    IF h # <<>>
    THEN CHOOSE s \in
             {FDiv(total_distance, window) :
                  total_distance \in
                      {FMul(total_delta_counts, meters_per_count) :
                           total_delta_counts \in {TotalDeltaCounts(h)},
                           meters_per_count \in
                               {FDiv(Fin(InchNum, InchDen), dpiv)}}} : TRUE
    ELSE Zero

\* PushCapped with push_front in place of push_back
PushCappedFront(h, x) ==
    LET a == <<x>> \o h
    IN  IF Len(a) > Capacity THEN Tail(a) ELSE a

\* PushCapped with pop_back in place of pop_front: at the ceiling the new
\* entry itself goes
PushCappedDropNewest(h, x) ==
    LET a == Append(h, x)
    IN  IF Len(a) > Capacity THEN SubSeq(a, 1, Len(a) - 1) ELSE a

\* push_back, then pop_front when the length passed the ceiling
PushCapped(h, x) ==
    LET a == Append(h, x)
    IN  IF Len(a) > Capacity THEN Tail(a) ELSE a

\* round(count / 0.015): the rate rounded to the nearest whole number
RoundRate(count) ==
    (2 * count * 1000 + PollingIntervalMs) \div (2 * PollingIntervalMs)

\* (events_count as f64 * (1.0 / polling_interval.as_secs_f64())) as usize:
\* the cast truncates; the f64 product lies within an ulp above the exact one
RateOf(count) == (count * 1000) \div PollingIntervalMs

(***************************************************************************)
(* Inputs.                                                                 *)
(***************************************************************************)
\* (x, y) of a RawEvent::MouseMoveEvent
Deltas == {<<0, 0>>, <<3, 4>>}

\* how far the clock moves in one advance, in ms
ClockSteps == {15, 5000}

NoEdit == <<"no edit">>

\* what the user may type into the DPI field in a frame
DpiTexts == {<<"a", "b", "c">>, <<"-", "5">>, <<"0">>, <<"8", "0", "0">>}

\* what the user may type into the window field in a frame
WindowTexts == {<<"a", "b", "c">>, <<"-", "5">>, <<"0">>, <<"5", "0", "0", "0">>,
                <<"1", "0", "0", "0">>}

\* the texts typed while the two threads run beside the frames
FewDpiTexts == {<<"8", "0", "0">>}

FewWindowTexts == {<<"0">>}

(***************************************************************************)
(* State.                                                                  *)
(***************************************************************************)
\* A thread's locals (event, now, current_time, speed) hold a fixed value
\* outside the scope that declares them.
VARIABLES
    \* MouseState, behind the mutex
    events_count, events_per_second, delta, running, max_speed, dpi,
    last_event_time, speed_history, polling_history, start_time,
    event_history, last_polling_update,
    \* MouseApp
    dpi_string, window_duration_string,
    \* the mutex: who holds it
    lock,
    \* mouse event handling thread: position, event, now
    ipc, ievent, inow,
    \* polling rate thread: position, end of its sleep
    apc, awake_at,
    \* update: position, current_time, speed
    upc, current_time, speed,
    \* the process and the clock (ms since start_time)
    alive, clock,
    \* what the environment did so far (bounds a run)
    work,
    \* appends of the event thread made while running was false
    stop_appends,
    \* events recorded so far less the events the ticks so far have consumed
    uncounted

shared == <<events_count, events_per_second, delta, running, max_speed, dpi,
            last_event_time, speed_history, polling_history, start_time,
            event_history, last_polling_update>>

app == <<dpi_string, window_duration_string>>

ingest == <<ipc, ievent, inow>>

aggregator == <<apc, awake_at>>

refresh == <<upc, current_time, speed>>

env == <<alive, clock, work>>

vars == <<shared, app, lock, ingest, aggregator, refresh, env, stop_appends,
          uncounted>>

None == "none"

\* MouseApp::new: the state, the two strings; both threads at their loop's top
ConstructedAt(pc) ==
    /\ events_count = 0
    /\ events_per_second = 0
    /\ delta = <<0, 0>>
    /\ running = TRUE
    /\ max_speed = Zero
    /\ dpi = Fin(1600, 1)
    /\ last_event_time = <<>>
    /\ speed_history = <<>>
    /\ polling_history = <<>>
    /\ start_time = 0
    /\ event_history = <<>>
    /\ last_polling_update = 0
    /\ dpi_string = <<"1", "6", "0", "0", ".", "0">>
    /\ window_duration_string = <<"5", ".", "0">>
    /\ lock = None
    /\ ipc = pc /\ ievent = <<0, 0>> /\ inow = 0
    /\ apc = "loop" /\ awake_at = 0
    /\ upc = "idle" /\ current_time = 0 /\ speed = Zero
    /\ alive = TRUE /\ clock = 0
    /\ stop_appends = 0
    /\ uncounted = 0

\* the event thread has its adapter and is at the top of its loop
Constructed == ConstructedAt("check")

Init ==
    /\ Constructed
    /\ work = 0

(***************************************************************************)
(* The clock and the process.                                              *)
(***************************************************************************)
Advance(d) ==
    /\ alive
    /\ work < MaxWork
    /\ work' = work + 1
    /\ clock' = clock + d
    /\ UNCHANGED <<shared, app, lock, ingest, aggregator, refresh, alive,
                   stop_appends, uncounted>>

\* the window is closed between two frames: run_native returns, main returns
\* and the process ends with both threads wherever they are
Exit ==
    /\ alive
    /\ upc = "idle"
    /\ alive' = FALSE
    /\ UNCHANGED <<shared, app, lock, ingest, aggregator, refresh, clock,
                   work, stop_appends, uncounted>>

(***************************************************************************)
(* Mouse event handling thread (main.rs:63-88).  A guard that is taken and *)
(* dropped within one block is one step: the step needs the mutex free and *)
(* leaves it free.                                                         *)
(***************************************************************************)
\* IngestCheck without the break
IngestCheckNoBreak ==
    /\ alive /\ ipc = "check" /\ lock = None
    /\ lock' = None
    /\ ipc' = "poll"
    /\ UNCHANGED <<shared, app, ievent, inow, aggregator, refresh, env,
                   stop_appends, uncounted>>

\* if !state_clone.lock().unwrap().running { break }
IngestCheck ==
    /\ alive /\ ipc = "check" /\ lock = None
    /\ lock' = None
    /\ ipc' = IF running THEN "poll" ELSE "done"
    /\ UNCHANGED <<shared, app, ievent, inow, aggregator, refresh, env,
                   stop_appends, uncounted>>

\* get_event() returns a MouseMoveEvent(_, x, y); let now = Instant::now()
IngestPollMove(d) ==
    /\ alive /\ ipc = "poll"
    /\ work < MaxWork
    /\ work' = work + 1
    /\ ievent' = d
    /\ inow' = clock
    /\ ipc' = "got"
    /\ UNCHANGED <<shared, app, lock, aggregator, refresh, alive, clock,
                   stop_appends, uncounted>>

\* get_event() returns an event that is no mouse move: nothing, and no sleep
IngestPollOther ==
    /\ alive /\ ipc = "poll"
    /\ ipc' = "check"
    /\ UNCHANGED <<shared, app, lock, ievent, inow, aggregator, refresh, env,
                   stop_appends, uncounted>>

\* get_event() returns None: thread::sleep(100 us)
IngestPollNone ==
    /\ alive /\ ipc = "poll"
    /\ ipc' = "sleep"
    /\ UNCHANGED <<shared, app, lock, ievent, inow, aggregator, refresh, env,
                   stop_appends, uncounted>>

IngestWake ==
    /\ alive /\ ipc = "sleep"
    /\ ipc' = "check"
    /\ UNCHANGED <<shared, app, lock, ievent, inow, aggregator, refresh, env,
                   stop_appends, uncounted>>

\* IngestRecord with event_history trimmed to the ceiling like the other two
IngestRecordCapped ==
    /\ alive /\ ipc = "got" /\ lock = None
    /\ last_event_time' = <<inow>>
    /\ events_count' = events_count + 1
    /\ delta' = ievent
    /\ event_history' = PushCapped(event_history, <<inow - start_time, ievent>>)
    /\ stop_appends' = IF running THEN stop_appends ELSE stop_appends + 1
    /\ uncounted' = uncounted + 1
    /\ lock' = None
    /\ ipc' = "check"
    /\ ievent' = <<0, 0>> /\ inow' = 0
    /\ UNCHANGED <<events_per_second, running, max_speed, dpi, speed_history,
                   polling_history, start_time, last_polling_update, app,
                   aggregator, refresh, env>>

\* lines 75-82: the guard, elapsed_time and the four writes; the guard is
\* dropped at the end of the block
IngestRecord ==
    /\ alive /\ ipc = "got" /\ lock = None
    /\ last_event_time' = <<inow>>
    /\ events_count' = events_count + 1
    /\ delta' = ievent
    /\ event_history' = Append(event_history, <<inow - start_time, ievent>>)
    /\ stop_appends' = IF running THEN stop_appends ELSE stop_appends + 1
    /\ uncounted' = uncounted + 1
    /\ lock' = None
    /\ ipc' = "check"
    /\ ievent' = <<0, 0>> /\ inow' = 0
    /\ UNCHANGED <<events_per_second, running, max_speed, dpi, speed_history,
                   polling_history, start_time, last_polling_update, app,
                   aggregator, refresh, env>>

(***************************************************************************)
(* Polling rate thread (main.rs:94-122).                                   *)
(***************************************************************************)
\* AggTick without the reset of events_count
AggTickKeepsCount ==
    /\ alive /\ apc = "loop" /\ lock = None
    /\ IF ~running
       THEN /\ apc' = "done"
            /\ UNCHANGED <<events_per_second, polling_history,
                           last_polling_update, awake_at, uncounted>>
       ELSE /\ apc' = "sleep"
            /\ awake_at' = clock + PollingIntervalMs
            /\ IF clock - last_polling_update >= PollingIntervalMs
               THEN /\ events_per_second' = RateOf(events_count)
                    /\ polling_history' =
                           PushCapped(polling_history,
                                      <<clock - start_time, RateOf(events_count)>>)
                    /\ uncounted' = uncounted - events_count
                    /\ last_polling_update' = clock
               ELSE UNCHANGED <<events_per_second, polling_history,
                                last_polling_update, uncounted>>
    /\ lock' = None
    /\ UNCHANGED <<events_count, delta, running, max_speed, dpi,
                   last_event_time, speed_history, start_time, event_history,
                   app, ingest, refresh, env, stop_appends>>

\* lines 96-121, one pass of the loop under its guard: break when running is
\* false; else now, elapsed_time and, when the interval has passed, the tick;
\* then the guard is dropped and thread::sleep(polling_interval) starts
AggTick ==
    /\ alive /\ apc = "loop" /\ lock = None
    /\ IF ~running
       THEN /\ apc' = "done"
            /\ UNCHANGED <<events_per_second, polling_history, events_count,
                           last_polling_update, awake_at, uncounted>>
       ELSE /\ apc' = "sleep"
            /\ awake_at' = clock + PollingIntervalMs
            /\ IF clock - last_polling_update >= PollingIntervalMs
               THEN /\ events_per_second' = RateOf(events_count)
                    /\ polling_history' =
                           PushCapped(polling_history,
                                      <<clock - start_time, RateOf(events_count)>>)
                    /\ uncounted' = uncounted - events_count
                    /\ events_count' = 0
                    /\ last_polling_update' = clock
               ELSE UNCHANGED <<events_per_second, polling_history,
                                events_count, last_polling_update, uncounted>>
    /\ lock' = None
    /\ UNCHANGED <<delta, running, max_speed, dpi, last_event_time,
                   speed_history, start_time, event_history, app, ingest,
                   refresh, env, stop_appends>>

\* the sleep lasts at least polling_interval
AggWake ==
    /\ alive /\ apc = "sleep"
    /\ clock >= awake_at
    /\ apc' = "loop"
    /\ awake_at' = 0
    /\ UNCHANGED <<shared, app, lock, ingest, refresh, env, stop_appends,
                   uncounted>>

(***************************************************************************)
(* MouseApp::update (main.rs:135-277): one frame, under one guard that is  *)
(* held from line 137 to the end of the function.                          *)
(***************************************************************************)
\* UiPruneGraphs with the guard dropped after the two prune loops
UiPruneGraphsUnlocked ==
    /\ alive /\ upc = "idle" /\ lock = None
    /\ work < MaxWork
    /\ work' = work + 1
    /\ lock' = None
    /\ current_time' = clock - start_time
    /\ polling_history' =
           PruneFront(polling_history, clock - start_time, GraphDuration)
    /\ speed_history' =
           PruneFront(speed_history, clock - start_time, GraphDuration)
    /\ upc' = "events"
    /\ UNCHANGED <<events_count, events_per_second, delta, running, max_speed,
                   dpi, last_event_time, start_time, event_history,
                   last_polling_update, app, ingest, aggregator, speed, alive,
                   clock, stop_appends, uncounted>>

\* lines 137-157: the guard, current_time, and the two prune loops of the
\* plotted histories
UiPruneGraphs ==
    /\ alive /\ upc = "idle" /\ lock = None
    /\ work < MaxWork
    /\ work' = work + 1
    /\ lock' = "ui"
    /\ current_time' = clock - start_time
    /\ polling_history' =
           PruneFront(polling_history, clock - start_time, GraphDuration)
    /\ speed_history' =
           PruneFront(speed_history, clock - start_time, GraphDuration)
    /\ upc' = "events"
    /\ UNCHANGED <<events_count, events_per_second, delta, running, max_speed,
                   dpi, last_event_time, start_time, event_history,
                   last_polling_update, app, ingest, aggregator, speed, alive,
                   clock, stop_appends, uncounted>>

\* UiSpeed with max_speed set to the speed of every frame
UiSpeedLatest ==
    \E window_duration \in {WindowDuration(window_duration_string)} :
        /\ alive /\ upc = "events"
        /\ event_history' =
               PruneFront(event_history, current_time, window_duration)
        /\ speed' = ComputeSpeed(event_history', dpi, window_duration)
        /\ max_speed' = speed'
        /\ speed_history' = PushCapped(speed_history, <<current_time, speed'>>)
        /\ upc' = "panel"
        /\ UNCHANGED <<events_count, events_per_second, delta, running, dpi,
                       last_event_time, polling_history, start_time,
                       last_polling_update, app, lock, ingest, aggregator,
                       current_time, env, stop_appends, uncounted>>

\* lines 159-196: the window, the prune loop of event_history, speed,
\* max_speed, speed_history
UiSpeed ==
    \E window_duration \in {WindowDuration(window_duration_string)} :
        /\ alive /\ upc = "events"
        /\ event_history' =
               PruneFront(event_history, current_time, window_duration)
        /\ speed' = ComputeSpeed(event_history', dpi, window_duration)
        /\ max_speed' = IF FGt(speed', max_speed) THEN speed' ELSE max_speed
        /\ speed_history' = PushCapped(speed_history, <<current_time, speed'>>)
        /\ upc' = "panel"
        /\ UNCHANGED <<events_count, events_per_second, delta, running, dpi,
                       last_event_time, polling_history, start_time,
                       last_polling_update, app, lock, ingest, aggregator,
                       current_time, env, stop_appends, uncounted>>

\* line 174 in the debug build: dx * dx + dy * dy overflows and the main
\* thread panics ("attempt to multiply with overflow"); the process ends
UiOverflowPanic ==
    \E window_duration \in {WindowDuration(window_duration_string)} :
        /\ alive /\ upc = "events"
        /\ event_history' =
               PruneFront(event_history, current_time, window_duration)
        /\ \E i \in 1..Len(event_history') :
               SquareOverflows(event_history'[i][2][1], event_history'[i][2][2])
        /\ alive' = FALSE
        /\ UNCHANGED <<events_count, events_per_second, delta, running,
                       max_speed, dpi, last_event_time, speed_history,
                       polling_history, start_time, last_polling_update, app,
                       lock, ingest, aggregator, refresh, clock, work,
                       stop_appends, uncounted>>

\* NewDpi without the test new_dpi > 0.0
NewDpiUnchecked(text, old) ==
    LET r == ParseF64(text)
    IN  IF r.ok THEN r.val ELSE old

\* lines 209-215: the DPI a changed DPI field sets
NewDpi(text, old) ==
    LET r == ParseF64(text)
    IN  IF r.ok /\ FGt(r.val, Zero) THEN r.val ELSE old

\* UiPanel with a reset button that clears events_count as well
UiPanelResetsCount(dpiEdit, winEdit, reset) ==
    /\ alive /\ upc = "panel"
    /\ dpi_string' = IF dpiEdit # NoEdit THEN dpiEdit ELSE dpi_string
    /\ dpi' = IF dpiEdit # NoEdit THEN NewDpi(dpiEdit, dpi) ELSE dpi
    /\ window_duration_string' =
           IF winEdit # NoEdit THEN winEdit ELSE window_duration_string
    /\ max_speed' = IF reset THEN Zero ELSE max_speed
    /\ events_count' = IF reset THEN 0 ELSE events_count
    /\ lock' = None
    /\ upc' = "idle"
    /\ current_time' = 0 /\ speed' = Zero
    /\ UNCHANGED <<events_per_second, delta, running,
                   last_event_time, speed_history, polling_history, start_time,
                   event_history, last_polling_update, ingest, aggregator,
                   env, stop_appends, uncounted>>

\* lines 199-276: the panel.  dpiEdit and winEdit are what the user typed in
\* this frame (NoEdit: nothing), reset is the button; then the guard is dropped
UiPanel(dpiEdit, winEdit, reset) ==
    /\ alive /\ upc = "panel"
    /\ dpi_string' = IF dpiEdit # NoEdit THEN dpiEdit ELSE dpi_string
    /\ dpi' = IF dpiEdit # NoEdit THEN NewDpi(dpiEdit, dpi) ELSE dpi
    /\ window_duration_string' =
           IF winEdit # NoEdit THEN winEdit ELSE window_duration_string
    /\ max_speed' = IF reset THEN Zero ELSE max_speed
    /\ lock' = None
    /\ upc' = "idle"
    /\ current_time' = 0 /\ speed' = Zero
    /\ UNCHANGED <<events_count, events_per_second, delta, running,
                   last_event_time, speed_history, polling_history, start_time,
                   event_history, last_polling_update, ingest, aggregator,
                   env, stop_appends, uncounted>>

(***************************************************************************)
(* The program.                                                            *)
(***************************************************************************)
IngestStep ==
    \/ IngestCheck
    \/ \E d \in Deltas : IngestPollMove(d)
    \/ IngestPollOther
    \/ IngestPollNone
    \/ IngestWake
    \/ IngestRecord

AggStep ==
    \/ AggTick
    \/ AggWake

UiStep(dpiTexts, winTexts) ==
    \/ UiPruneGraphs
    \/ UiSpeed
    \/ \E dpiEdit \in dpiTexts \cup {NoEdit}, winEdit \in winTexts \cup {NoEdit},
          reset \in BOOLEAN : UiPanel(dpiEdit, winEdit, reset)

Next ==
    \/ \E d \in ClockSteps : Advance(d)
    \/ Exit
    \/ IngestStep
    \/ AggStep
    \/ UiStep(FewDpiTexts, FewWindowTexts)

Spec == Init /\ [][Next]_vars

(***************************************************************************)
(* The program from a state that holds histories: the histories, the clock *)
(* and the window text are drawn from bounded sets, each history sorted    *)
(* and within its ceiling as the program keeps it; the threads run, and    *)
(* the environment does one more thing (a frame, a mouse move, 15 ms).     *)
(***************************************************************************)
RECURSIVE SortedSeq(_)
SortedSeq(S) ==
    IF S = {} THEN <<>>
    ELSE LET m == CHOOSE x \in S : \A y \in S : x <= y
         IN  <<m>> \o SortedSeq(S \ {m})

\* the history with one entry <<t, v>> per time of T, oldest first
HistoryAt(T, v) ==
    LET ts == SortedSeq(T) IN [i \in 1..Len(ts) |-> <<ts[i], v>>]

UiEventTimes == {0, 1000, 2000, 6000}

UiPollingTimes == {15, 1000, 6000}

UiSpeedTimes == {0, 1000}

UiDeltas == {<<3, 4>>, <<1600, 0>>, <<46341, 0>>}

UiClocks == {6000, 7000}

LastTime(h) == IF h = <<>> THEN 0 ELSE h[Len(h)][1]

InitUi ==
    /\ event_history \in
           {HistoryAt(T, d) : T \in SUBSET UiEventTimes, d \in UiDeltas}
    /\ polling_history \in
           {HistoryAt(T, 0) : T \in {X \in SUBSET UiPollingTimes :
                                         Cardinality(X) <= Capacity}}
    /\ speed_history \in
           {HistoryAt(T, Zero) : T \in {X \in SUBSET UiSpeedTimes :
                                            Cardinality(X) <= Capacity}}
    /\ window_duration_string \in WindowTexts \cup {<<"5", ".", "0">>}
    /\ clock \in UiClocks
    /\ events_count = 0
    /\ events_per_second = 0
    /\ delta = IF event_history = <<>> THEN <<0, 0>>
               ELSE event_history[Len(event_history)][2]
    /\ running = TRUE
    /\ max_speed = Zero
    /\ dpi = Fin(1600, 1)
    /\ last_event_time = IF event_history = <<>> THEN <<>>
                         ELSE <<LastTime(event_history)>>
    /\ start_time = 0
    /\ last_polling_update = LastTime(polling_history)
    /\ dpi_string = <<"1", "6", "0", "0", ".", "0">>
    /\ lock = None
    /\ ipc = "check" /\ ievent = <<0, 0>> /\ inow = 0
    /\ apc = "loop" /\ awake_at = 0
    /\ upc = "idle" /\ current_time = 0 /\ speed = Zero
    /\ alive = TRUE
    /\ work = MaxWork - 1
    /\ stop_appends = 0
    /\ uncounted = 0

NextUi ==
    \/ Advance(PollingIntervalMs)
    \/ IngestStep
    \/ AggStep
    \/ UiStep(DpiTexts, FewWindowTexts)
    \/ UiOverflowPanic

SpecUi == InitUi /\ [][NextUi]_vars

(***************************************************************************)
(* Shutdown.  No line of main.rs writes running after construction; the    *)
(* write is taken from the specification (section 3, Lifecycle: the state  *)
(* "is torn down by flipping running to false"), as one step under the     *)
(* mutex.  Time goes on while the polling rate thread sleeps.              *)
(***************************************************************************)
Shutdown ==
    /\ alive /\ running /\ lock = None
    /\ running' = FALSE
    /\ lock' = None
    /\ UNCHANGED <<events_count, events_per_second, delta, max_speed, dpi,
                   last_event_time, speed_history, polling_history, start_time,
                   event_history, last_polling_update, app, ingest, aggregator,
                   refresh, env, stop_appends, uncounted>>

\* after the flip the clock reaches the end of a sleep in progress
SleepElapses ==
    /\ alive /\ ~running
    /\ apc = "sleep" /\ clock < awake_at
    /\ clock' = awake_at
    /\ UNCHANGED <<shared, app, lock, ingest, aggregator, refresh, alive, work,
                   stop_appends, uncounted>>

\* the constructed program, with three environment events to come
InitStop ==
    /\ Constructed
    /\ work = MaxWork - 3

NextStop ==
    \/ Advance(PollingIntervalMs)
    \/ IngestStep
    \/ AggStep
    \/ UiStep({}, {})
    \/ Shutdown
    \/ SleepElapses

\* Fair scheduling: each thread that can run does run, the mutex is granted
\* to a thread that keeps asking for it (strong fairness), a frame that
\* started returns, and time goes on.
SpecStop ==
    /\ InitStop
    /\ [][NextStop]_vars
    /\ SF_vars(IngestStep)
    /\ SF_vars(AggStep)
    /\ WF_vars(UiSpeed)
    /\ WF_vars(UiPanel(NoEdit, NoEdit, FALSE))
    /\ WF_vars(SleepElapses)

(***************************************************************************)
(* Startup.  The event thread's first statement creates the adapter        *)
(* (RawInputManager::new().unwrap(), line 60), after MouseApp::new spawned *)
(* it.  A failure panics in that thread: the thread ends (panics unwind,   *)
(* the default), or the process ends (a profile with panic = "abort").     *)
(***************************************************************************)
AdapterInitOk ==
    /\ alive /\ ipc = "init"
    /\ ipc' = "check"
    /\ UNCHANGED <<shared, app, lock, ievent, inow, aggregator, refresh, env,
                   stop_appends, uncounted>>

AdapterInitPanics ==
    /\ alive /\ ipc = "init"
    /\ ipc' = "failed"
    /\ UNCHANGED <<shared, app, lock, ievent, inow, aggregator, refresh, env,
                   stop_appends, uncounted>>

AdapterInitAborts ==
    /\ alive /\ ipc = "init"
    /\ ipc' = "failed"
    /\ alive' = FALSE
    /\ UNCHANGED <<shared, app, lock, ievent, inow, aggregator, refresh, clock,
                   work, stop_appends, uncounted>>

\* MouseApp::new has returned; the event thread has not run yet
InitStart ==
    /\ ConstructedAt("init")
    /\ work = MaxWork - 3

NextStart ==
    \/ Advance(PollingIntervalMs)
    \/ Exit
    \/ AdapterInitOk
    \/ AdapterInitPanics
    \/ AdapterInitAborts
    \/ IngestStep
    \/ AggStep
    \/ UiStep({}, {})

SpecStart == InitStart /\ [][NextStart]_vars

(***************************************************************************)
(* The mutex, step by step.  Each lock().unwrap() is a step of its own     *)
(* that waits for the mutex to be free and makes the caller its holder;    *)
(* the block under the guard and the drop of the guard are the next step.  *)
(* A frame starts, then asks for the mutex.  The process goes on (no Exit).*)
(***************************************************************************)
\* line 66: state_clone.lock().unwrap()
IngestCheckLock ==
    /\ alive /\ ipc = "check" /\ lock = None
    /\ lock' = "ingest"
    /\ ipc' = "checking"
    /\ UNCHANGED <<shared, app, ievent, inow, aggregator, refresh, env,
                   stop_appends, uncounted>>

\* lines 66-68: .running is read, the temporary guard is dropped, break or go on
IngestCheckUnlock ==
    /\ alive /\ ipc = "checking" /\ lock = "ingest"
    /\ lock' = None
    /\ ipc' = IF running THEN "poll" ELSE "done"
    /\ UNCHANGED <<shared, app, ievent, inow, aggregator, refresh, env,
                   stop_appends, uncounted>>

\* line 75: let mut state = state_clone.lock().unwrap()
IngestRecordLock ==
    /\ alive /\ ipc = "got" /\ lock = None
    /\ lock' = "ingest"
    /\ ipc' = "recording"
    /\ UNCHANGED <<shared, app, ievent, inow, aggregator, refresh, env,
                   stop_appends, uncounted>>

\* IngestRecordUnlock with the guard kept into the next pass of the loop
IngestRecordKeepsGuard ==
    /\ alive /\ ipc = "recording" /\ lock = "ingest"
    /\ last_event_time' = <<inow>>
    /\ events_count' = events_count + 1
    /\ delta' = ievent
    /\ event_history' = Append(event_history, <<inow - start_time, ievent>>)
    /\ stop_appends' = IF running THEN stop_appends ELSE stop_appends + 1
    /\ uncounted' = uncounted + 1
    /\ lock' = "ingest"
    /\ ipc' = "check"
    /\ ievent' = <<0, 0>> /\ inow' = 0
    /\ UNCHANGED <<events_per_second, running, max_speed, dpi, speed_history,
                   polling_history, start_time, last_polling_update, app,
                   aggregator, refresh, env>>

\* lines 76-83: the four writes; the guard is dropped at the end of the block
IngestRecordUnlock ==
    /\ alive /\ ipc = "recording" /\ lock = "ingest"
    /\ last_event_time' = <<inow>>
    /\ events_count' = events_count + 1
    /\ delta' = ievent
    /\ event_history' = Append(event_history, <<inow - start_time, ievent>>)
    /\ stop_appends' = IF running THEN stop_appends ELSE stop_appends + 1
    /\ uncounted' = uncounted + 1
    /\ lock' = None
    /\ ipc' = "check"
    /\ ievent' = <<0, 0>> /\ inow' = 0
    /\ UNCHANGED <<events_per_second, running, max_speed, dpi, speed_history,
                   polling_history, start_time, last_polling_update, app,
                   aggregator, refresh, env>>

\* line 96: let mut state = state_clone.lock().unwrap()
AggLock ==
    /\ alive /\ apc = "loop" /\ lock = None
    /\ lock' = "agg"
    /\ apc' = "pass"
    /\ UNCHANGED <<shared, app, ingest, awake_at, refresh, env, stop_appends,
                   uncounted>>

\* AggPass with thread::sleep inside the block of the guard
AggPassSleepsLocked ==
    /\ alive /\ apc = "pass" /\ lock = "agg"
    /\ IF ~running
       THEN /\ apc' = "done"
            /\ lock' = None
            /\ UNCHANGED <<events_per_second, polling_history, events_count,
                           last_polling_update, awake_at, uncounted>>
       ELSE /\ apc' = "sleep"
            /\ lock' = "agg"
            /\ awake_at' = clock + PollingIntervalMs
            /\ IF clock - last_polling_update >= PollingIntervalMs
               THEN /\ events_per_second' = RateOf(events_count)
                    /\ polling_history' =
                           PushCapped(polling_history,
                                      <<clock - start_time, RateOf(events_count)>>)
                    /\ uncounted' = uncounted - events_count
                    /\ events_count' = 0
                    /\ last_polling_update' = clock
               ELSE UNCHANGED <<events_per_second, polling_history,
                                events_count, last_polling_update, uncounted>>
    /\ UNCHANGED <<delta, running, max_speed, dpi, last_event_time,
                   speed_history, start_time, event_history, app, ingest,
                   refresh, env, stop_appends>>

\* lines 97-121: the pass under the guard; the guard is dropped at the end of
\* the block (line 120), before thread::sleep(polling_interval)
AggPass ==
    /\ alive /\ apc = "pass" /\ lock = "agg"
    /\ IF ~running
       THEN /\ apc' = "done"
            /\ UNCHANGED <<events_per_second, polling_history, events_count,
                           last_polling_update, awake_at, uncounted>>
       ELSE /\ apc' = "sleep"
            /\ awake_at' = clock + PollingIntervalMs
            /\ IF clock - last_polling_update >= PollingIntervalMs
               THEN /\ events_per_second' = RateOf(events_count)
                    /\ polling_history' =
                           PushCapped(polling_history,
                                      <<clock - start_time, RateOf(events_count)>>)
                    /\ uncounted' = uncounted - events_count
                    /\ events_count' = 0
                    /\ last_polling_update' = clock
               ELSE UNCHANGED <<events_per_second, polling_history,
                                events_count, last_polling_update, uncounted>>
    /\ lock' = None
    /\ UNCHANGED <<delta, running, max_speed, dpi, last_event_time,
                   speed_history, start_time, event_history, app, ingest,
                   refresh, env, stop_appends>>

\* lines 135-136: the framework calls update
UiFrame ==
    /\ alive /\ upc = "idle"
    /\ work < MaxWork
    /\ work' = work + 1
    /\ upc' = "wait"
    /\ UNCHANGED <<shared, app, lock, ingest, aggregator, current_time, speed,
                   alive, clock, stop_appends, uncounted>>

\* lines 137-157: the mutex is granted; current_time and the two prune loops
UiAcquire ==
    /\ alive /\ upc = "wait" /\ lock = None
    /\ lock' = "ui"
    /\ current_time' = clock - start_time
    /\ polling_history' =
           PruneFront(polling_history, clock - start_time, GraphDuration)
    /\ speed_history' =
           PruneFront(speed_history, clock - start_time, GraphDuration)
    /\ upc' = "events"
    /\ UNCHANGED <<events_count, events_per_second, delta, running, max_speed,
                   dpi, last_event_time, start_time, event_history,
                   last_polling_update, app, ingest, aggregator, speed, env,
                   stop_appends, uncounted>>

IngestLockStep ==
    \/ IngestCheckLock
    \/ IngestCheckUnlock
    \/ \E d \in Deltas : IngestPollMove(d)
    \/ IngestPollOther
    \/ IngestPollNone
    \/ IngestWake
    \/ IngestRecordLock
    \/ IngestRecordUnlock

AggLockStep ==
    \/ AggLock
    \/ AggPass
    \/ AggWake

UiPanelStep == \E reset \in BOOLEAN : UiPanel(NoEdit, NoEdit, reset)

\* the constructed program, with three environment events to come
InitLock ==
    /\ Constructed
    /\ work = MaxWork - 3

NextLock ==
    \/ Advance(PollingIntervalMs)
    \/ IngestLockStep
    \/ AggLockStep
    \/ UiFrame
    \/ UiAcquire
    \/ UiSpeed
    \/ UiPanelStep

\* Fair scheduling: a thread that can step does step, the mutex is granted to
\* a caller that keeps asking for it (strong fairness), a frame that holds
\* the mutex goes on to its end.
SpecLock ==
    /\ InitLock
    /\ [][NextLock]_vars
    /\ SF_vars(IngestLockStep)
    /\ SF_vars(AggLockStep)
    /\ SF_vars(UiAcquire)
    /\ WF_vars(UiSpeed)
    /\ WF_vars(UiPanelStep)

(***************************************************************************)
(* Claims.                                                                 *)
(***************************************************************************)
Sorted(h) == \A i \in 1..(Len(h) - 1) : h[i][1] <= h[i + 1][1]

\* s is what is left of h after dropping entries from its front
IsSuffix(s, h) ==
    /\ Len(s) <= Len(h)
    /\ s = SubSeq(h, Len(h) - Len(s) + 1, Len(h))

Times(h) == [i \in 1..Len(h) |-> h[i][1]]

\* the step of the event thread that records the event it holds
RecordStep == ipc = "got" /\ ipc' = "check"

\* the step of a frame that prunes event_history and computes the speed
SpeedStep == upc = "events" /\ upc' = "panel"

\* the step of a frame that takes the mutex and prunes the plotted histories
GraphsStep == upc = "idle" /\ upc' = "events"

\* the step of a frame that runs the panel and drops the mutex
PanelStep == upc = "panel" /\ upc' = "idle"

\* one pass of the polling rate thread under its guard
TickStep == apc = "loop" /\ apc' # "loop"

\* C1: ingestion is lossless.  An event the adapter delivered stays with the
\* event thread, unchanged, until the thread records it; recording it is one
\* step taken with the mutex free and leaving it free, which appends exactly
\* (elapsed, dx, dy) to event_history, sets delta to (dx, dy) and adds one to
\* events_count; and every other step that changes event_history is a
\* frame's window prune, which only drops entries from the front.
C1_IngestionLossless ==
    [][/\ ipc = "got" =>
              \/ ipc' = "got" /\ ievent' = ievent /\ inow' = inow
              \/ ~alive'
              \/ /\ RecordStep
                 /\ lock = None /\ lock' = None
                 /\ event_history' =
                        Append(event_history, <<inow - start_time, ievent>>)
                 /\ delta' = ievent
                 /\ events_count' = events_count + 1
       /\ (event_history' # event_history /\ ~RecordStep) =>
              /\ SpeedStep
              /\ lock = "ui"
              /\ IsSuffix(event_history', event_history)
              /\ \A i \in 1..(Len(event_history) - Len(event_history')) :
                     FGt(AgeSecs(current_time, event_history[i][1]),
                         WindowDuration(window_duration_string))
      ]_vars

\* C1 witness: events were recorded beside a tick and a frame, and more of
\* them are held than a capped history could hold
C1_Witness ==
    /\ Len(event_history) > Capacity
    /\ events_count >= 1
    /\ polling_history # <<>>
    /\ speed_history # <<>>

\* C2: each of the three histories holds at most the ceiling's number of
\* entries in every reachable state
C2_HistoriesWithinCapacity ==
    /\ Len(speed_history) <= Capacity
    /\ Len(polling_history) <= Capacity
    /\ Len(event_history) <= Capacity

\* C4: once the application has shut down, running is false
C4_ShutdownClearsRunning == ~alive => ~running

\* C5: the three histories are sorted ascending by timestamp
C5_HistoriesSorted ==
    /\ Sorted(speed_history)
    /\ Sorted(polling_history)
    /\ Sorted(event_history)

\* C5 witness: beside a frame, the event thread read a timestamp, a tick ran
\* at a later time, and then the event was recorded behind an earlier one
C5_Witness ==
    /\ Len(event_history) >= 2
    /\ events_count >= 1
    /\ polling_history # <<>>
    /\ speed_history # <<>>
    /\ LastTime(event_history) < last_polling_update

\* C3: once running is false both loops end at their next check of the flag
\* (under fair scheduling both do end); from then on no step appends to
\* polling_history or resets events_count, the event thread records at most
\* the one event it held when the flag fell, and after both loops have ended
\* events_count stays and polling_history only loses entries to a frame's prune
C3_LoopsStopOnFlag ==
    /\ (~running) ~> (ipc = "done" /\ apc = "done")
    /\ [](stop_appends <= 1)
    /\ [][/\ ~running =>
                 /\ IsSuffix(polling_history', polling_history)
                 /\ events_count' >= events_count
                 /\ events_per_second' = events_per_second
          /\ (~running /\ ipc = "check" /\ ipc' # "check") => ipc' = "done"
          /\ (~running /\ apc = "loop" /\ apc' # "loop") => apc' = "done"
          /\ (ipc = "done" /\ apc = "done") =>
                 /\ ipc' = "done" /\ apc' = "done"
                 /\ events_count' = events_count
                 /\ IsSuffix(polling_history', polling_history)
         ]_vars

\* C3 witness: both loops have ended, and the event thread recorded the one
\* event it held when the flag fell
C3_Witness ==
    /\ ~running
    /\ ipc = "done" /\ apc = "done"
    /\ stop_appends = 1

\* C6: the window a refresh uses is strictly positive, and is the default of
\* 5000 ms (5 s) when the window text does not parse or is not positive
C6_WindowPositiveOrDefault ==
    upc = "events" =>
        LET r == ParseF64(window_duration_string)
            w == WindowDuration(window_duration_string)
        IN  /\ FGt(w, Zero)
            /\ (~r.ok \/ ~FGt(r.val, Zero)) => w = Fin(5000, 1000)

\* the entries of h whose age at time T is at most W, in their order
Young(h, T, W) == SelectSeq(h, LAMBDA e : ~FGt(AgeSecs(T, e[1]), W))

\* C7: the prunes of a frame at time T keep exactly the entries of age at
\* most the horizon: 5 s for polling_history and speed_history, the window W
\* for event_history; events at 0, 1, 2, 6 s with T = 6 s, W = 5 s leave 1, 2, 6
C7_PruneKeepsExactlyYoung ==
    [][/\ GraphsStep =>
              /\ current_time' = clock - start_time
              /\ polling_history' =
                     Young(polling_history, current_time', Fin(5, 1))
              /\ speed_history' = Young(speed_history, current_time', Fin(5, 1))
       /\ SpeedStep =>
              event_history' =
                  Young(event_history, current_time,
                        WindowDuration(window_duration_string))
       /\ (/\ SpeedStep
           /\ Times(event_history) = <<0, 1000, 2000, 6000>>
           /\ current_time = 6000
           /\ WindowDuration(window_duration_string) = Fin(5, 1)) =>
              Times(event_history') = <<1000, 2000, 6000>>
      ]_vars

\* C7 witness: a frame at 6 s with a window of 5 s has pruned; the events at
\* 1, 2 and 6 s are left, and the rate sample of 15 ms is gone
C7_Witness ==
    /\ upc = "panel"
    /\ current_time = 6000
    /\ window_duration_string = <<"5", "0", "0", "0">>
    /\ Times(event_history) = <<1000, 2000, 6000>>
    /\ polling_history = <<>> /\ last_polling_update = 15

\* C8: max_speed changes only upward, to the speed a frame computed, or to
\* exactly 0 by the reset button; so from 0 it leaves only by a frame whose
\* speed is greater than 0
C8_MaxSpeedMonotone ==
    [][max_speed' # max_speed =>
           \/ /\ SpeedStep
              /\ FGt(max_speed', max_speed)
              /\ max_speed' = speed'
           \/ /\ PanelStep
              /\ max_speed' = Zero
      ]_vars

\* C8 witness: a frame computed a speed above 0 and max_speed was reset to 0
C8_Witness ==
    /\ upc = "idle"
    /\ max_speed = Zero
    /\ \E i \in 1..Len(speed_history) : FGt(speed_history[i][2], Zero)
    /\ Len(speed_history) >= 2

\* C9: dpi is strictly positive; only the panel changes it, to the positive
\* number its text parses to; the texts abc, -5 and 0 leave it as it was
C9_DpiPositive ==
    /\ [](dpi.k = "fin" /\ FGt(dpi, Zero))
    /\ [][/\ dpi' # dpi =>
                 /\ PanelStep
                 /\ dpi_string' # dpi_string
                 /\ ParseF64(dpi_string').ok
                 /\ dpi' = ParseF64(dpi_string').val
          /\ (/\ PanelStep
              /\ dpi_string' \in {<<"a", "b", "c">>, <<"-", "5">>, <<"0">>}) =>
                 dpi' = dpi
         ]_vars

\* C9 witness: the text -5 was typed and dpi is still the 1600 it was
C9_Witness ==
    /\ upc = "idle"
    /\ dpi_string = <<"-", "5">>
    /\ dpi = Fin(1600, 1)
    /\ speed_history # <<>>

\* floor(count / 0.015)
FloorRate(count) ==
    CHOOSE r \in 0..(67 * count) :
        /\ r * PollingIntervalMs <= count * 1000
        /\ count * 1000 < (r + 1) * PollingIntervalMs

\* C10 as amended: a pass of the polling rate thread with at least 15 ms since
\* last_polling_update sets events_per_second to floor(events_count / 0.015)
\* (30 events give 2000), appends (elapsed, rate) to polling_history (dropping
\* the oldest sample above the ceiling), resets events_count and sets
\* last_polling_update to the pass's time; a pass before that changes none
C10_TickTruncatesRate ==
    [][(TickStep /\ running) =>
           IF clock - last_polling_update >= PollingIntervalMs
           THEN /\ events_per_second' = FloorRate(events_count)
                /\ polling_history' =
                       (IF Len(polling_history) >= Capacity
                        THEN Tail(polling_history) ELSE polling_history)
                       \o <<<<clock - start_time, FloorRate(events_count)>>>>
                /\ events_count' = 0
                /\ last_polling_update' = clock
                /\ RateOf(30) = 2000
           ELSE UNCHANGED <<events_per_second, polling_history, events_count,
                            last_polling_update>>
      ]_vars

\* C10 witness: a tick counted one event: the rate is 66
C10_Witness ==
    /\ polling_history # <<>>
    /\ polling_history[Len(polling_history)] = <<last_polling_update, 66>>
    /\ events_per_second = 66
    /\ events_count = 0
    /\ apc = "sleep"

\* C10 as claimed: a tick sets events_per_second to round(events_count / 0.015)
C10_TickRoundsRate ==
    [][(TickStep /\ running /\ clock - last_polling_update >= PollingIntervalMs) =>
           events_per_second' = RoundRate(events_count)
      ]_vars

\* the Euclidean norm of a delta of the model: one component is 0, or the
\* squares are small
TrueLength(d) ==
    IF d[2] = 0 THEN Abs(d[1])
    ELSE IF d[1] = 0 THEN Abs(d[2])
    ELSE ISqrt(d[1] * d[1] + d[2] * d[2])

RECURSIVE TrueTotal(_)
TrueTotal(h) == IF h = <<>> THEN 0 ELSE TrueLength(h[1][2]) + TrueTotal(Tail(h))

\* C11: the speed step of a frame appends exactly one sample (elapsed, speed)
\* to speed_history (the oldest leaves above the ceiling) and no other step
\* appends one; speed is 0 on an empty pruned event_history and otherwise
\* (sum of the norms) * (0.0254 / dpi) / window; it is never negative; dpi
\* 1600, one event (1600, 0) and a window of 1 s give 0.0254
C11_SpeedSample ==
    [][/\ SpeedStep =>
              LET window == WindowDuration(window_duration_string)
                  expected ==
                      IF event_history' = <<>> THEN Zero
                      ELSE FDiv(FMul(Fin(TrueTotal(event_history'), 1),
                                     FDiv(Fin(254, 10000), dpi)),
                                window)
                  appended == Append(speed_history, <<current_time, expected>>)
              IN  /\ speed_history' =
                         IF Len(appended) > Capacity THEN Tail(appended)
                         ELSE appended
                  /\ ~FGt(Zero, speed_history'[Len(speed_history')][2])
                  /\ (/\ dpi = Fin(1600, 1)
                      /\ window = Fin(1, 1)
                      /\ Len(event_history') = 1
                      /\ event_history'[1][2] = <<1600, 0>>) =>
                         speed_history'[Len(speed_history')][2] = Fin(254, 10000)
       /\ (speed_history' # speed_history /\ ~SpeedStep) =>
              GraphsStep /\ IsSuffix(speed_history', speed_history)
      ]_vars

\* C20: for every event a frame sums, dx * dx + dy * dy stays within i32, and
\* the term of the event is its Euclidean norm
C20_SquaresFitI32 ==
    [][SpeedStep =>
           \A i \in 1..Len(event_history') :
               LET d == event_history'[i][2]
               IN  /\ ~SquareOverflows(d[1], d[2])
                   /\ DeltaLength(d) = Fin(TrueLength(d), 1)
      ]_vars

\* C12: a failure to create the adapter ends the process: in no state has
\* the adapter failed while the process (its polling rate thread, its frames)
\* goes on
C12_AdapterFailureFatal == ipc = "failed" => ~alive

\* C13: pruning is idempotent: the prune a frame has just done, done again
\* with the same time and horizon, removes nothing
C13_PruneIdempotent ==
    [][/\ GraphsStep =>
              /\ PruneFront(polling_history', current_time', GraphDuration) =
                     polling_history'
              /\ PruneFront(speed_history', current_time', GraphDuration) =
                     speed_history'
       /\ SpeedStep =>
              PruneFront(event_history', current_time,
                         WindowDuration(window_duration_string)) =
                  event_history'
      ]_vars

\* C13 witness: a frame at 7 s with a window of 1 s has pruned: of the events
\* the one at 6 s is left, and the rate sample of 1 s is gone
C13_Witness ==
    /\ upc = "panel"
    /\ current_time = 7000
    /\ window_duration_string = <<"1", "0", "0", "0">>
    /\ Times(event_history) = <<6000>>
    /\ polling_history = <<>> /\ last_polling_update = 1000

\* C14: every recorded event is counted in exactly one tick: the events
\* recorded so far are the events_count of now plus the counts the ticks so
\* far have consumed
C14_EventsCountedOnce == uncounted = events_count

\* C14 witness: a tick consumed one event, and one more was recorded since
C14_Witness ==
    /\ events_per_second = 66
    /\ events_count = 1
    /\ Len(event_history) = 2
    /\ ipc # "got"

\* C15: a frame makes all its changes under one acquisition of the mutex: the
\* mutex is taken by the step that prunes the plotted histories and dropped
\* by the panel's step, it is held in every state in between, and while it
\* is held neither thread reads the flag, records an event or runs a pass,
\* and nothing but the frame's own steps changes the shared state
C15_FrameUnderOneGuard ==
    /\ [](upc # "idle" <=> lock = "ui")
    /\ [][/\ (lock # "ui" /\ lock' = "ui") => GraphsStep
          /\ (lock = "ui" /\ lock' # "ui") => PanelStep
          /\ lock = "ui" =>
                 /\ ipc = "check" => ipc' = "check"
                 /\ ipc = "got" => ipc' = "got"
                 /\ apc = "loop" => apc' = "loop"
                 /\ shared' # shared => (SpeedStep \/ PanelStep)
          /\ (\/ speed_history' # speed_history
              \/ max_speed' # max_speed
              \/ dpi' # dpi
              \/ Len(polling_history') < Len(polling_history)
              \/ Len(event_history') < Len(event_history)) =>
                 (GraphsStep \/ SpeedStep \/ PanelStep)
         ]_vars

\* C15 witness: a frame is at its panel and holds the mutex; the event thread
\* holds an event it cannot record yet and the polling rate thread is at the
\* top of its loop
C15_Witness ==
    /\ upc = "panel" /\ lock = "ui"
    /\ ipc = "got"
    /\ apc = "loop" /\ clock - last_polling_update >= PollingIntervalMs
    /\ event_history # <<>>

\* C16: the event thread holds the mutex only between a lock() and the end
\* of its block, never in get_event or in its sleep of 100 us; the polling
\* rate thread holds it only during its pass, never in its sleep of 15 ms
C16_NoGuardAcrossSleep ==
    /\ ipc \in {"poll", "sleep", "got", "check", "done"} => lock # "ingest"
    /\ apc \in {"sleep", "loop", "done"} => lock # "agg"
    /\ lock = "ingest" <=> ipc \in {"checking", "recording"}
    /\ lock = "agg" <=> apc = "pass"

\* C16 witness: both threads sleep after each held the mutex: an event was
\* recorded and a tick was taken
C16_Witness ==
    /\ ipc = "sleep" /\ apc = "sleep"
    /\ event_history # <<>>
    /\ polling_history # <<>>

\* C17: nobody asks for the mutex while holding it, the mutex is taken only
\* when free, every holder releases it, and under fair scheduling every
\* request of the event thread, the polling rate thread and a frame is granted
C17_NoDeadlock ==
    /\ [](/\ ipc \in {"check", "got"} => lock # "ingest"
          /\ apc = "loop" => lock # "agg"
          /\ upc = "wait" => lock # "ui")
    /\ [][lock' # lock => (lock = None \/ lock' = None)]_vars
    /\ (lock # None) ~> (lock = None)
    /\ (ipc = "check") ~> (ipc = "checking")
    /\ (ipc = "got") ~> (ipc = "recording")
    /\ (apc = "loop") ~> (apc = "pass")
    /\ (upc = "wait") ~> (upc = "events")

\* C17 witness: each of the three was granted the mutex and gave it back: an
\* event is recorded, a frame left its sample, the polling rate thread made
\* its pass
C17_Witness ==
    /\ lock = None
    /\ event_history # <<>>
    /\ speed_history # <<>>
    /\ apc = "sleep"

\* the polling rate thread and a frame both ask for the free mutex
TickAndRefreshEnabled ==
    alive /\ lock = None /\ apc = "loop" /\ upc = "idle"

\* the pass of the polling rate thread at this clock takes the tick
TickFires == running /\ clock - last_polling_update >= PollingIntervalMs

\* polling_history h after the pass of the polling rate thread at this clock
AfterTick(h) ==
    IF TickFires
    THEN PushCapped(h, <<clock - start_time, RateOf(events_count)>>)
    ELSE h

\* polling_history h after the prune loop of a frame at this clock
AfterRefresh(h) == PruneFront(h, clock - start_time, GraphDuration)

\* C18: a tick and a frame at the same clock commute.  The pass of the
\* polling rate thread writes only events_per_second, events_count,
\* last_polling_update and polling_history, from events_count,
\* last_polling_update, the clock and polling_history; a frame writes none of
\* the first three, and of polling_history only its prune; and wherever both
\* ask for the free mutex, pruning the history the tick has pushed to gives
\* the history the tick gives when it pushes to the pruned one, also at the
\* ceiling.
C18_TickRefreshCommute ==
    /\ [](TickAndRefreshEnabled =>
              AfterRefresh(AfterTick(polling_history))
                  = AfterTick(AfterRefresh(polling_history)))
    /\ [][/\ TickStep =>
                 /\ polling_history' = AfterTick(polling_history)
                 /\ events_count' = IF TickFires THEN 0 ELSE events_count
                 /\ events_per_second' =
                        IF TickFires THEN RateOf(events_count)
                        ELSE events_per_second
                 /\ last_polling_update' =
                        IF TickFires THEN clock ELSE last_polling_update
                 /\ UNCHANGED <<delta, running, max_speed, dpi, last_event_time,
                                speed_history, start_time, event_history, clock>>
          /\ GraphsStep =>
                 /\ polling_history' = AfterRefresh(polling_history)
                 /\ UNCHANGED <<events_count, events_per_second,
                                last_polling_update, running, start_time, clock>>
          /\ (SpeedStep \/ PanelStep) =>
                 UNCHANGED <<polling_history, events_count, events_per_second,
                             last_polling_update, running, start_time, clock>>
         ]_vars

\* C18 witness: the tick has pushed its entry at this clock to a
\* polling_history at its ceiling, and a frame that starts now, at the same
\* clock, prunes an entry older than the graph's five seconds from its front
C18_Witness ==
    /\ alive /\ lock = None /\ apc = "sleep" /\ upc = "idle"
    /\ work < MaxWork
    /\ last_polling_update = clock
    /\ Len(polling_history) = Capacity
    /\ polling_history[Capacity][1] = clock - start_time
    /\ AfterRefresh(polling_history) # polling_history

\* C19: events_count is never negative and only two steps change it: the
\* event thread's record adds exactly one, and a pass of the polling rate
\* thread that takes its tick sets it to 0 (a pass that does not take it
\* leaves it alone); no step of a frame changes events_count,
\* events_per_second, delta, running, start_time or last_polling_update; and
\* no step at all changes start_time.
C19_CountAndFrame ==
    /\ [](events_count >= 0)
    /\ [][/\ events_count' # events_count =>
                 \/ RecordStep /\ events_count' = events_count + 1
                 \/ TickStep /\ TickFires /\ events_count' = 0
          /\ RecordStep => events_count' = events_count + 1
          /\ TickStep =>
                 events_count' = IF TickFires THEN 0 ELSE events_count
          /\ (GraphsStep \/ SpeedStep \/ PanelStep) =>
                 UNCHANGED <<events_count, events_per_second, delta, running,
                             start_time, last_polling_update>>
          /\ start_time' = start_time
         ]_vars

\* C19 witness: a tick took one event and reset the count, one more event
\* was recorded, and a frame has run to its end with that count standing
C19_Witness ==
    /\ events_per_second = RateOf(1)
    /\ events_count = 1
    /\ upc = "idle" /\ lock = None
    /\ speed_history # <<>>
    /\ Len(event_history) >= 1

=============================================================================
